---- MODULE Spec2Model ----
(***************************************************************************)
(* Model of the multi-agent code generation pipeline:                      *)
(*   orchestrator.py  CodeGenerationOrchestrator.generate_code / save_code *)
(*   agents/planner.py, designer.py, code_generator.py, tester.py          *)
(*   main.py          main                                                 *)
(*                                                                         *)
(* Texts are TLA+ strings and the Python string methods the agents use     *)
(* (strip, lower, split, startswith, lstrip, join, slicing, `in') are      *)
(* operators over them.  Two characters of the source cannot be written    *)
(* in a TLA+ string literal and are represented by a stand-in character    *)
(* that occurs nowhere else in the modelled texts: the backquote (see      *)
(* Backtick) and the bullet U+2022 (see BulletChar).                       *)
(***************************************************************************)
EXTENDS Integers, Sequences, FiniteSets, TLC

VARIABLES
    pc,            \* position of the caller / generate_code
    description,   \* argument of generate_code
    language,      \* argument of generate_code
    calls,         \* stage invocations so far, each with its arguments
    oracle_log,    \* oracle calls so far, each with its outcome (the last
                   \* one is in flight while pc is a waiting position)
    plan,          \* local `plan' of generate_code
    design,        \* local `design'
    code_output,   \* local `code_output'
    test_results,  \* local `test_results'
    results,       \* the dict `results' being filled
    returned,      \* the value generate_code returned to its caller
    saved,         \* the file written by save_code
    requests       \* the HTTP requests the /generate handler is serving

vars == <<pc, description, language, calls, oracle_log, plan,
          design, code_output, test_results, results, returned, saved, requests>>

-----------------------------------------------------------------------------
(* Bounds *)

\* largest number of bullet lines in one oracle response
MaxBullets == 11

\* largest number of lines an enumerated design-stage response is built from
MaxLines == 4

\* largest number of pieces an enumerated code-stage response is built from
MaxPieces == 5

-----------------------------------------------------------------------------
(* Python values *)

None == [none |-> TRUE]

\* stand-in for the backquote character
Backtick == "~"

\* stand-in for the bullet character U+2022
BulletChar == "@"

Fence == Backtick \o Backtick \o Backtick

-----------------------------------------------------------------------------
(* Python string methods *)

Min(S) == CHOOSE m \in S : \A n \in S : m <= n

Whitespace == {" ", "\n", "\t", "\r"}

CharAt(s, i) == SubSeq(s, i, i)

\* s[n:]
From(s, n) == SubSeq(s, n, Len(s))

\* s[:n]
Prefix(s, n) == IF Len(s) <= n THEN s ELSE SubSeq(s, 1, n)

UpperLetters == "ABCDEFGHIJKLMNOPQRSTUVWXYZ"
LowerLetters == "abcdefghijklmnopqrstuvwxyz"

\* the lower-case letter of each upper-case letter
LowerTable ==
    [c \in {CharAt(UpperLetters, i) : i \in 1..26} |->
        CharAt(LowerLetters, CHOOSE i \in 1..26 : CharAt(UpperLetters, i) = c)]

LowerChar(c) == IF c \in DOMAIN LowerTable THEN LowerTable[c] ELSE c

RECURSIVE Lower(_)
\* str.lower()
Lower(s) == IF s = "" THEN "" ELSE LowerChar(CharAt(s, 1)) \o Lower(From(s, 2))

RECURSIVE LStripChars(_, _)
\* str.lstrip(chars)
LStripChars(s, chars) ==
    IF s # "" /\ CharAt(s, 1) \in chars THEN LStripChars(From(s, 2), chars) ELSE s

RECURSIVE RStripChars(_, _)
\* str.rstrip(chars)
RStripChars(s, chars) ==
    IF s # "" /\ CharAt(s, Len(s)) \in chars
    THEN RStripChars(SubSeq(s, 1, Len(s) - 1), chars)
    ELSE s

\* str.strip()
Strip(s) == RStripChars(LStripChars(s, Whitespace), Whitespace)

\* str.find(sub) + 1: position of the first occurrence, 0 when there is none
Find(s, sub) ==
    LET idx == {i \in 1..(Len(s) - Len(sub) + 1) : SubSeq(s, i, i + Len(sub) - 1) = sub}
    IN  IF idx = {} THEN 0 ELSE Min(idx)

\* sub in s
Contains(s, sub) ==
    \E i \in 1..(Len(s) - Len(sub) + 1) : SubSeq(s, i, i + Len(sub) - 1) = sub

\* str.startswith(p)
StartsWith(s, p) == Len(s) >= Len(p) /\ SubSeq(s, 1, Len(p)) = p

RECURSIVE Split(_, _)
\* str.split(sep), sep non-empty
Split(s, sep) ==
    LET i == Find(s, sep)
    IN  IF i = 0 THEN <<s>>
        ELSE <<SubSeq(s, 1, i - 1)>> \o Split(From(s, i + Len(sep)), sep)

RECURSIVE Join(_, _)
\* sep.join(parts)
Join(parts, sep) ==
    IF parts = << >> THEN ""
    ELSE IF Len(parts) = 1 THEN parts[1]
    ELSE parts[1] \o sep \o Join(Tail(parts), sep)

\* the characters lstrip('-*<bullet> ') removes
BulletStrip == {"-", "*", BulletChar, " "}

\* line.startswith('-') or line.startswith('*') or line.startswith('<bullet>')
IsBullet(line) ==
    StartsWith(line, "-") \/ StartsWith(line, "*") \/ StartsWith(line, BulletChar)

-----------------------------------------------------------------------------
(* agents/planner.py *)

PlanStart == [section |-> "none", overview |-> "", features |-> << >>,
              approach |-> "", considerations |-> ""]

\* one iteration of the loop over lines of PlannerAgent.plan
PlanLine(st, raw) ==
    LET line == Strip(raw)
        low  == Lower(line)
    IN  IF line = "" THEN st
        ELSE IF Contains(low, "overview") \/ Contains(low, "summary")
             THEN [st EXCEPT !.section = "overview"]
        ELSE IF Contains(low, "feature") \/ Contains(low, "requirement")
             THEN [st EXCEPT !.section = "features"]
        ELSE IF Contains(low, "approach") \/ Contains(low, "strategy")
             THEN [st EXCEPT !.section = "approach"]
        ELSE IF Contains(low, "consideration") \/ Contains(low, "note")
             THEN [st EXCEPT !.section = "considerations"]
        ELSE IF IsBullet(line)
             THEN IF st.section = "features"
                  THEN [st EXCEPT !.features = Append(@, LStripChars(line, BulletStrip))]
                  ELSE st
        ELSE IF st.section = "overview"
             THEN [st EXCEPT !.overview = @ \o line \o " "]
        ELSE IF st.section = "approach"
             THEN [st EXCEPT !.approach = @ \o line \o " "]
        ELSE IF st.section = "considerations"
             THEN [st EXCEPT !.considerations = @ \o line \o " "]
        ELSE st

RECURSIVE PlanScan(_, _)
PlanScan(st, lines) ==
    IF lines = << >> THEN st ELSE PlanScan(PlanLine(st, Head(lines)), Tail(lines))

DefaultFeatures ==
    <<"Core functionality as described", "Error handling", "User-friendly interface">>

\* PlannerAgent.plan, from the oracle's content on
PlannerParse(content, lang) ==
    LET st == PlanScan(PlanStart, Split(content, "\n"))
        overview == IF st.overview = "" THEN Prefix(content, 200) \o "..." ELSE st.overview
        features == IF st.features = << >> THEN DefaultFeatures ELSE st.features
        approach == IF st.approach = ""
                    THEN "Implement using " \o lang \o " with clean, modular code structure"
                    ELSE st.approach
        considerations == IF st.considerations = ""
                          THEN "Focus on code quality, readability, and maintainability"
                          ELSE st.considerations
    IN  [project_overview |-> Strip(overview),
         key_features     |-> features,
         approach         |-> Strip(approach),
         considerations   |-> Strip(considerations)]

-----------------------------------------------------------------------------
(* agents/designer.py *)

RECURSIVE StrippedNonEmpty(_)
\* [line.strip() for line in lines if line.strip()]
StrippedNonEmpty(lines) ==
    IF lines = << >> THEN << >>
    ELSE IF Strip(Head(lines)) = "" THEN StrippedNonEmpty(Tail(lines))
    ELSE <<Strip(Head(lines))>> \o StrippedNonEmpty(Tail(lines))

DesignStart == [section |-> "none", architecture |-> "", components |-> << >>,
                data_structures |-> "", function_signatures |-> ""]

\* one iteration of the loop over lines of DesignerAgent.design
DesignLine(st, line) ==
    LET low == Lower(line)
    IN  IF StartsWith(low, "architecture") THEN [st EXCEPT !.section = "architecture"]
        ELSE IF StartsWith(low, "components") THEN [st EXCEPT !.section = "components"]
        ELSE IF StartsWith(low, "data structures") THEN [st EXCEPT !.section = "data"]
        ELSE IF StartsWith(low, "function signatures") THEN [st EXCEPT !.section = "functions"]
        ELSE IF IsBullet(line) /\ st.section = "components"
             THEN [st EXCEPT !.components = Append(@, Strip(LStripChars(line, BulletStrip)))]
        ELSE IF st.section = "architecture"
             THEN [st EXCEPT !.architecture = @ \o line \o " "]
        ELSE IF st.section = "data"
             THEN [st EXCEPT !.data_structures = @ \o line \o " "]
        ELSE IF st.section = "functions"
             THEN [st EXCEPT !.function_signatures = @ \o line \o " "]
        ELSE st

RECURSIVE DesignScan(_, _)
DesignScan(st, lines) ==
    IF lines = << >> THEN st ELSE DesignScan(DesignLine(st, Head(lines)), Tail(lines))

DefaultComponents ==
    <<"main entry point", "core logic module", "state/data manager",
      "input handling", "rendering/output module">>

\* the cap of components[:10]
MaxComponents == 10

\* CapComponents without the slice
CapComponents_Uncapped(components) == components

\* components[:10]
CapComponents(components) ==
    IF Len(components) <= MaxComponents THEN components
    ELSE SubSeq(components, 1, MaxComponents)

\* DesignerAgent.design, from the oracle's content on
DesignerParse(content, lang) ==
    LET st == DesignScan(DesignStart, StrippedNonEmpty(Split(content, "\n")))
        architecture ==
            IF st.architecture = ""
            THEN "Modular " \o lang \o
                 " application with separated logic, state, and execution layers."
            ELSE st.architecture
        components == IF st.components = << >> THEN DefaultComponents ELSE st.components
        data_structures ==
            IF st.data_structures = ""
            THEN "Core state objects, configuration structures, and runtime data containers."
            ELSE st.data_structures
        function_signatures ==
            IF st.function_signatures = ""
            THEN "initialize(), run_loop(), update_state(), handle_input(), render_output(), cleanup()"
            ELSE st.function_signatures
    IN  [architecture        |-> Strip(architecture),
         components          |-> CapComponents(components),
         data_structures     |-> Strip(data_structures),
         function_signatures |-> Strip(function_signatures)]

-----------------------------------------------------------------------------
(* agents/code_generator.py *)

\* the language identifiers recognised on the first line of a code block
LanguageTags(lang) ==
    {"python", "javascript", "java", "cpp", "c++", "c", "go", "rust", Lower(lang)}

\* CodeOfBlock comparing the first line without lower()
CodeOfBlock_CaseSensitive(part, lang) ==
    LET lines == Split(Strip(part), "\n")
    IN  IF Strip(lines[1]) \in LanguageTags(lang)
        THEN Join(Tail(lines), "\n")
        ELSE Strip(part)

\* the body of `if i % 2 == 1' for the first code block
CodeOfBlock(part, lang) ==
    LET lines == Split(Strip(part), "\n")
    IN  IF Lower(Strip(lines[1])) \in LanguageTags(lang)
        THEN Join(Tail(lines), "\n")
        ELSE Strip(part)

\* the code and the explanation extracted from the oracle's content
ExtractCode(content, lang) ==
    IF Contains(content, Fence)
    THEN LET parts == Split(content, Fence)
         IN  [code        |-> CodeOfBlock(parts[2], lang),
              explanation |-> IF Strip(parts[1]) # "" THEN Strip(parts[1]) ELSE ""]
    ELSE [code        |-> content,
          explanation |-> "Generated " \o lang \o " code as per requirements"]

ExtensionKeys ==
    {"python", "javascript", "java", "cpp", "c++", "c", "go", "rust", "ruby",
     "php", "typescript", "swift", "kotlin"}

\* extension_map
extension_map ==
    [k \in ExtensionKeys |->
        CASE k = "python"     -> ".py"
          [] k = "javascript" -> ".js"
          [] k = "java"       -> ".java"
          [] k = "cpp"        -> ".cpp"
          [] k = "c++"        -> ".cpp"
          [] k = "c"          -> ".c"
          [] k = "go"         -> ".go"
          [] k = "rust"       -> ".rs"
          [] k = "ruby"       -> ".rb"
          [] k = "php"        -> ".php"
          [] k = "typescript" -> ".ts"
          [] k = "swift"      -> ".swift"
          [] k = "kotlin"     -> ".kt"]

\* Extension looking the language up without lower()
Extension_CaseSensitive(lang) ==
    IF lang \in DOMAIN extension_map THEN extension_map[lang] ELSE ".txt"

\* extension_map.get(language.lower(), ".txt")
Extension(lang) ==
    IF Lower(lang) \in DOMAIN extension_map THEN extension_map[Lower(lang)] ELSE ".txt"

\* f"generated_code{extension}"
Filename(lang) == "generated_code" \o Extension(lang)

\* the size explanation[:500] keeps
MaxExplanation == 500

\* CodeGeneratorParse returning the code without strip()
CodeGeneratorParse_Unstripped(content, lang) ==
    LET ex == ExtractCode(content, lang)
        explanation ==
            IF ex.explanation = ""
            THEN "Complete " \o lang \o " implementation based on the requirements"
            ELSE ex.explanation
    IN  [code        |-> ex.code,
         filename    |-> Filename(lang),
         explanation |-> Prefix(explanation, MaxExplanation)]

\* CodeGeneratorAgent.generate, from the oracle's content on
CodeGeneratorParse(content, lang) ==
    LET ex == ExtractCode(content, lang)
        explanation ==
            IF ex.explanation = ""
            THEN "Complete " \o lang \o " implementation based on the requirements"
            ELSE ex.explanation
    IN  [code        |-> Strip(ex.code),
         filename    |-> Filename(lang),
         explanation |-> Prefix(explanation, MaxExplanation)]

-----------------------------------------------------------------------------
(* agents/tester.py *)

TestStart == [section |-> "none", overall_quality |-> "", issues_found |-> << >>,
              suggestions |-> << >>, is_production_ready |-> TRUE]

\* the section detection of one line: the if/elif chain
TestDetect(st, low) ==
    IF Contains(low, "quality") \/ Contains(low, "assessment")
    THEN [st EXCEPT !.section = "quality"]
    ELSE IF Contains(low, "test") /\ Contains(low, "result")
    THEN [st EXCEPT !.section = "tests"]
    ELSE IF Contains(low, "issue") \/ Contains(low, "problem") \/ Contains(low, "concern")
    THEN [st EXCEPT !.section = "issues"]
    ELSE IF Contains(low, "suggest") \/ Contains(low, "recommend") \/ Contains(low, "improve")
    THEN [st EXCEPT !.section = "suggestions"]
    ELSE IF Contains(low, "production") \/ Contains(low, "ready")
    THEN IF Contains(low, "not") \/ Contains(low, "isn't") \/ Contains(low, "no")
         THEN [st EXCEPT !.is_production_ready = FALSE]
         ELSE st
    ELSE st

\* the content extraction of one line, after the section detection
TestExtract(st, line) ==
    IF IsBullet(line)
    THEN LET clean_line == Strip(LStripChars(line, BulletStrip))
         IN  IF st.section = "issues"
             THEN [st EXCEPT !.issues_found = Append(@, clean_line),
                             !.is_production_ready = FALSE]
             ELSE IF st.section = "suggestions"
             THEN [st EXCEPT !.suggestions = Append(@, clean_line)]
             ELSE st
    ELSE IF st.section = "quality" /\ st.overall_quality = ""
         THEN [st EXCEPT !.overall_quality = @ \o line \o " "]
         ELSE st

\* one iteration of the loop over lines of TesterAgent.test
TestLine(st, raw) ==
    LET line == Strip(raw)
    IN  IF line = "" THEN st ELSE TestExtract(TestDetect(st, Lower(line)), line)

RECURSIVE TestScan(_, _)
TestScan(st, lines) ==
    IF lines = << >> THEN st ELSE TestScan(TestLine(st, Head(lines)), Tail(lines))

\* any(word in i.lower() for i in issues_found)
AnyIssueHas(issues, word) == \E k \in 1..Len(issues) : Contains(Lower(issues[k]), word)

\* the three TestResult entries built when test_results is empty
MakeTestResults(issues) ==
    <<[test_name |-> "Syntax Check",
       passed    |-> ~AnyIssueHas(issues, "syntax"),
       details   |-> "Code syntax appears valid"],
      [test_name |-> "Logic Review",
       passed    |-> ~AnyIssueHas(issues, "logic"),
       details   |-> "Logic flow reviewed"],
      [test_name |-> "Best Practices",
       passed    |-> Len(issues) = 0,
       details   |-> IF Len(issues) = 0 THEN "Code follows standard practices"
                     ELSE "Some improvements suggested"]>>

DefaultSuggestions ==
    <<"Code appears functional", "Consider adding more comments", "Test with various inputs">>

\* TesterParse without the reset of is_production_ready when no issue was found
TesterParse_KeepsVerdict(content) ==
    LET st == TestScan(TestStart, Split(content, "\n"))
        overall_quality ==
            IF st.overall_quality = ""
            THEN "Code review completed. " \o
                 (IF Len(st.issues_found) = 0 THEN "No major issues found."
                  ELSE ToString(Len(st.issues_found)) \o " issues identified.")
            ELSE st.overall_quality
    IN  [overall_quality     |-> Strip(overall_quality),
         test_results        |-> MakeTestResults(st.issues_found),
         issues_found        |-> IF st.issues_found = << >>
                                 THEN <<"No critical issues found">>
                                 ELSE st.issues_found,
         suggestions         |-> IF st.suggestions = << >> THEN DefaultSuggestions
                                 ELSE st.suggestions,
         is_production_ready |-> st.is_production_ready]

\* TesterAgent.test, from the oracle's content on
TesterParse(content) ==
    LET st == TestScan(TestStart, Split(content, "\n"))
        overall_quality ==
            IF st.overall_quality = ""
            THEN "Code review completed. " \o
                 (IF Len(st.issues_found) = 0 THEN "No major issues found."
                  ELSE ToString(Len(st.issues_found)) \o " issues identified.")
            ELSE st.overall_quality
    IN  [overall_quality     |-> Strip(overall_quality),
         test_results        |-> MakeTestResults(st.issues_found),
         issues_found        |-> IF st.issues_found = << >>
                                 THEN <<"No critical issues found">>
                                 ELSE st.issues_found,
         suggestions         |-> IF st.suggestions = << >> THEN DefaultSuggestions
                                 ELSE st.suggestions,
         is_production_ready |-> IF st.issues_found = << >> THEN TRUE
                                 ELSE st.is_production_ready]

-----------------------------------------------------------------------------
(* The oracle: what chain.invoke can answer at each stage *)

\* the three bullet markers, taken in turn
Marker(i) == IF i % 3 = 1 THEN "-" ELSE IF i % 3 = 2 THEN "*" ELSE BulletChar

RECURSIVE BulletLines(_, _, _)
\* the lines "- <word>1", "* <word>2", ..., each ended by a newline
BulletLines(word, from, n) ==
    IF from > n THEN ""
    ELSE Marker(from) \o " " \o word \o ToString(from) \o "\n"
         \o BulletLines(word, from + 1, n)

\* a response listing n features
ManyFeatures(n) == "Key Features:\n" \o BulletLines("f", 1, n)

\* a response listing n components
ManyComponents(n) == "Components:\n" \o BulletLines("c", 1, n)

PlanReplies ==
    {"",
     "Just build it.",
     "Overview:\nAdds two numbers\nKey Features:\n- read input\n* add\nApproach:\nOne function\nConsiderations:\nOverflow",
     ManyFeatures(MaxBullets)}

DesignReplies ==
    {"",
     "A single module.",
     "Architecture:\nSingle file\nComponents:\n- main\n- adder\nData Structures:\nintegers\nFunction Signatures:\nadd(a, b)",
     ManyComponents(MaxBullets)}

CodeReplies ==
    {"",
     "print(1)",
     " x = 1\n",
     "Here it is:\n" \o Fence \o "python\nprint(1)\n" \o Fence \o "\nDone.",
     Fence \o "\nmain()\n" \o Fence,
     Fence \o Fence,
     "while (true) { }",
     "while (true) { break; }"}

TestReplies ==
    {"",
     "NO_CRITICAL_ISSUES",
     "Issues:\n- CRITICAL: syntax error on line 1",
     "Overall quality: good\nProduction ready: not yet",
     "Suggestions:\n- add comments"}

\* what main reads from the terminal
Descriptions == {"sum two integers", " game ", ""}
LanguageInputs == {"Python", "python ", "javascript", "C++", "COBOL", ""}

\* the outcome of one oracle call
Answer(content) == [ok |-> TRUE, content |-> content]
Failure == [ok |-> FALSE, content |-> ""]

Outcomes(replies) == {Answer(c) : c \in replies} \cup {Failure}

\* the oracle call in flight
InFlight == oracle_log[Len(oracle_log)]

-----------------------------------------------------------------------------
(* web_api.py: the requests served by the one module-level orchestrator *)

\* the two requests in flight
Requests == {"r1", "r2"}

\* the locals of one call of the handler and of its call of generate_code
IdleRequest ==
    [pc |-> "idle", description |-> "", language |-> "", replies |-> << >>,
     plan |-> None, design |-> None, code_output |-> None, test_results |-> None,
     results |-> None, returned |-> None, response |-> None, overlap |-> {}]

NoRequests == [r \in Requests |-> IdleRequest]

-----------------------------------------------------------------------------
(* main.py and orchestrator.py *)

Init ==
    /\ pc = "main"
    /\ description = ""
    /\ language = ""
    /\ calls = << >>
    /\ oracle_log = << >>
    /\ plan = None
    /\ design = None
    /\ code_output = None
    /\ test_results = None
    /\ results = None
    /\ returned = None
    /\ saved = None
    /\ requests = NoRequests

\* main up to the call of generate_code, and generate_code up to stage 1
MainStart ==
    /\ pc = "main"
    /\ \E d \in Descriptions, l \in LanguageInputs :
          IF Strip(d) = "" \/ Strip(l) = ""
          THEN /\ pc' = "exit"
               /\ UNCHANGED <<description, language, results>>
          ELSE /\ description' = Strip(d)
               /\ language' = Strip(l)
               /\ results' = [description |-> Strip(d), language |-> Strip(l)]
               /\ pc' = "plan"
    /\ UNCHANGED <<calls, oracle_log, plan, design, code_output, test_results,
                   returned, saved, requests>>

\* a stage method is called and blocks in chain.invoke
Invoke(at, stage, args, replies) ==
    /\ pc = at
    /\ calls' = Append(calls, [stage |-> stage, args |-> args])
    /\ \E o \in Outcomes(replies) :
          oracle_log' = Append(oracle_log, [stage |-> stage, outcome |-> o])
    /\ pc' = stage \o "_wait"
    /\ UNCHANGED <<description, language, plan, design, code_output,
                   test_results, results, returned, saved, requests>>

PlanInvoke == Invoke("plan", "plan", <<description, language>>, PlanReplies)

\* PlanReturn going on to stage 3: the design stage is skipped
PlanReturn_SkipsDesign ==
    /\ pc = "plan_wait"
    /\ InFlight.outcome.ok
    /\ plan' = PlannerParse(InFlight.outcome.content, language)
    /\ results' = [description |-> description, language |-> language, plan |-> plan']
    /\ pc' = "code"
    /\ UNCHANGED <<description, language, calls, oracle_log, design, code_output,
                   test_results, returned, saved, requests>>

PlanReturn ==
    /\ pc = "plan_wait"
    /\ InFlight.outcome.ok
    /\ plan' = PlannerParse(InFlight.outcome.content, language)
    /\ results' = [description |-> description, language |-> language, plan |-> plan']
    /\ pc' = "design"
    /\ UNCHANGED <<description, language, calls, oracle_log, design, code_output,
                   test_results, returned, saved, requests>>

DesignInvoke == Invoke("design", "design", <<plan, language>>, DesignReplies)

DesignReturn ==
    /\ pc = "design_wait"
    /\ InFlight.outcome.ok
    /\ design' = DesignerParse(InFlight.outcome.content, language)
    /\ results' = [description |-> description, language |-> language, plan |-> plan,
                   design |-> design']
    /\ pc' = "code"
    /\ UNCHANGED <<description, language, calls, oracle_log, plan, code_output,
                   test_results, returned, saved, requests>>

CodeInvoke == Invoke("code", "code", <<description, plan, design, language>>, CodeReplies)

CodeReturn ==
    /\ pc = "code_wait"
    /\ InFlight.outcome.ok
    /\ code_output' = CodeGeneratorParse(InFlight.outcome.content, language)
    /\ results' = [description |-> description, language |-> language, plan |-> plan,
                   design |-> design, code |-> code_output']
    /\ pc' = "test"
    /\ UNCHANGED <<description, language, calls, oracle_log, plan, design,
                   test_results, returned, saved, requests>>

TestInvoke == Invoke("test", "test", <<description, code_output, language>>, TestReplies)

\* stage 4 returns and generate_code returns results
TestReturn ==
    /\ pc = "test_wait"
    /\ InFlight.outcome.ok
    /\ test_results' = TesterParse(InFlight.outcome.content)
    /\ results' = [description |-> description, language |-> language, plan |-> plan,
                   design |-> design, code |-> code_output,
                   test_results |-> test_results']
    /\ returned' = results'
    /\ pc' = "returned"
    /\ UNCHANGED <<description, language, calls, oracle_log, plan, design,
                   code_output, saved, requests>>

WaitingPositions == {"plan_wait", "design_wait", "code_wait", "test_wait"}

\* OracleFails with the failed stage called again
OracleFails_Retries ==
    /\ pc \in WaitingPositions
    /\ ~InFlight.outcome.ok
    /\ pc' = InFlight.stage
    /\ UNCHANGED <<description, language, calls, oracle_log, plan, design,
                   code_output, test_results, results, returned, saved, requests>>

\* chain.invoke raises: nothing in the agents or in generate_code catches it,
\* main's `except Exception' prints the fatal error
OracleFails ==
    /\ pc \in WaitingPositions
    /\ ~InFlight.outcome.ok
    /\ pc' = "fatal"
    /\ UNCHANGED <<description, language, calls, oracle_log, plan, design,
                   code_output, test_results, results, returned, saved, requests>>

\* main asks whether to save; save_code writes code_output.code
MainSave ==
    /\ pc = "returned"
    /\ \E save \in {"y", "n"} :
          saved' = IF save = "y"
                   THEN [path |-> returned.code.filename, content |-> returned.code.code]
                   ELSE None
    /\ pc' = "done"
    /\ UNCHANGED <<description, language, calls, oracle_log, plan, design,
                   code_output, test_results, results, returned, requests>>

Next ==
    \/ MainStart
    \/ PlanInvoke
    \/ PlanReturn
    \/ DesignInvoke
    \/ DesignReturn
    \/ CodeInvoke
    \/ CodeReturn
    \/ TestInvoke
    \/ TestReturn
    \/ OracleFails
    \/ MainSave

Spec == Init /\ [][Next]_vars

-----------------------------------------------------------------------------
(* The design stage alone, over an enumerated family of oracle responses *)

DesignLines ==
    {"Architecture:", "Components:", "Data Structures:", "Function Signatures:",
     "- alpha", " * beta ", BulletChar \o "gamma", "layered", ""}

Texts(alphabet, n, sep) ==
    {Join(ls, sep) : ls \in UNION {[1..k -> alphabet] : k \in 0..n}}

DesignContents ==
    Texts(DesignLines, MaxLines, "\n")
    \cup {ManyComponents(n) : n \in 0..MaxBullets}
    \cup {"Architecture:\n- layered\n" \o ManyComponents(n) \o "plain\nData Structures:\n- rows\n"
            : n \in 0..MaxBullets}

\* generate_code blocked in designer.design, the plan stage having returned
InitDesign ==
    /\ pc = "design_wait"
    /\ description = "sum two integers"
    /\ language \in {"Python", "COBOL"}
    /\ plan = PlannerParse("", language)
    /\ calls = <<[stage |-> "plan", args |-> <<description, language>>],
                 [stage |-> "design", args |-> <<plan, language>>]>>
    /\ \E c \in DesignContents :
          oracle_log = <<[stage |-> "plan", outcome |-> Answer("")],
                         [stage |-> "design", outcome |-> Answer(c)]>>
    /\ design = None
    /\ code_output = None
    /\ test_results = None
    /\ results = [description |-> description, language |-> language, plan |-> plan]
    /\ returned = None
    /\ saved = None
    /\ requests = NoRequests

NextDesign == DesignReturn

SpecDesign == InitDesign /\ [][NextDesign]_vars

-----------------------------------------------------------------------------
(* The code stage alone, over an enumerated family of oracle responses *)

CodePieces == {Fence, "\n", " ", "Python", "cobol", "x=1"}

CodeContents ==
    Texts(CodePieces, MaxPieces, "")
    \cup {"First:\n" \o Fence \o "python\na=1\n" \o Fence \o "\nthen:\n"
            \o Fence \o "python\nb=2\n" \o Fence,
          Fence \o "x=1" \o Fence \o Fence \o "y=2" \o Fence}

\* generate_code blocked in code_generator.generate
InitCode ==
    /\ pc = "code_wait"
    /\ description = "sum two integers"
    /\ language \in {"Python", "COBOL"}
    /\ plan = PlannerParse("", language)
    /\ design = DesignerParse("", language)
    /\ calls = <<[stage |-> "plan", args |-> <<description, language>>],
                 [stage |-> "design", args |-> <<plan, language>>],
                 [stage |-> "code", args |-> <<description, plan, design, language>>]>>
    /\ \E c \in CodeContents :
          oracle_log = <<[stage |-> "plan", outcome |-> Answer("")],
                         [stage |-> "design", outcome |-> Answer("")],
                         [stage |-> "code", outcome |-> Answer(c)]>>
    /\ code_output = None
    /\ test_results = None
    /\ results = [description |-> description, language |-> language, plan |-> plan,
                  design |-> design]
    /\ returned = None
    /\ saved = None
    /\ requests = NoRequests

NextCode == CodeReturn

SpecCode == InitCode /\ [][NextCode]_vars

-----------------------------------------------------------------------------
(* The plan stage alone, over an enumerated family of oracle responses *)

PlanLines ==
    {"Overview:", "Key Features:", "Approach:", "Considerations:",
     "- alpha", " * beta ", BulletChar \o "gamma", "plain"}

PlanContents == Texts(PlanLines, MaxLines, "\n")

\* generate_code blocked in planner.plan
InitPlan ==
    /\ pc = "plan_wait"
    /\ description = "sum two integers"
    /\ language = "Python"
    /\ calls = <<[stage |-> "plan", args |-> <<description, language>>]>>
    /\ \E c \in PlanContents :
          oracle_log = <<[stage |-> "plan", outcome |-> Answer(c)]>>
    /\ plan = None
    /\ design = None
    /\ code_output = None
    /\ test_results = None
    /\ results = [description |-> description, language |-> language]
    /\ returned = None
    /\ saved = None
    /\ requests = NoRequests

NextPlan == PlanReturn

SpecPlan == InitPlan /\ [][NextPlan]_vars

-----------------------------------------------------------------------------
(* The test stage alone, over an enumerated family of oracle responses *)

TestLines ==
    {"Issues:", "Suggestions:", "Quality: fine", "Not production ready",
     "- bad loop", " * add docs ", BulletChar \o " minor issue", "plain"}

TestContents == Texts(TestLines, MaxLines, "\n")

\* generate_code blocked in tester.test
InitTest ==
    /\ pc = "test_wait"
    /\ description = "sum two integers"
    /\ language = "Python"
    /\ plan = PlannerParse("", language)
    /\ design = DesignerParse("", language)
    /\ code_output = CodeGeneratorParse("print(1)", language)
    /\ calls = <<[stage |-> "plan", args |-> <<description, language>>],
                 [stage |-> "design", args |-> <<plan, language>>],
                 [stage |-> "code", args |-> <<description, plan, design, language>>],
                 [stage |-> "test", args |-> <<description, code_output, language>>]>>
    /\ \E c \in TestContents :
          oracle_log = <<[stage |-> "plan", outcome |-> Answer("")],
                         [stage |-> "design", outcome |-> Answer("")],
                         [stage |-> "code", outcome |-> Answer("print(1)")],
                         [stage |-> "test", outcome |-> Answer(c)]>>
    /\ test_results = None
    /\ results = [description |-> description, language |-> language, plan |-> plan,
                  design |-> design, code |-> code_output]
    /\ returned = None
    /\ saved = None
    /\ requests = NoRequests

NextTest == TestReturn

SpecTest == InitTest /\ [][NextTest]_vars

-----------------------------------------------------------------------------
(* web_api.py: POST /generate on the shared orchestrator *)

\* the JSON bodies of the requests
WebBodies ==
    {[description |-> "sum two integers", language |-> "Python"],
     [description |-> "game", language |-> "COBOL"]}

\* what chain.invoke can answer to a request at each stage
WebReplies(stage) ==
    CASE stage = "plan" ->
            {"", "Overview:\nAdds two numbers\nKey Features:\n- read input\nApproach:\nOne function"}
      [] stage = "design" ->
            {"Architecture:\nSingle file\nComponents:\n- main\n- adder"}
      [] stage = "code" ->
            {"print(1)", Fence \o "python\nmain()\n" \o Fence}
      [] stage = "test" ->
            {"NO_CRITICAL_ISSUES", "Issues:\n- CRITICAL: syntax error on line 1"}

\* the key of results a stage's output is stored under
ResultKey(stage) == IF stage = "test" THEN "test_results" ELSE stage

\* the position after a stage
AfterStage(stage) ==
    CASE stage = "plan" -> "design"
      [] stage = "design" -> "code"
      [] stage = "code" -> "test"
      [] stage = "test" -> "returned"

\* dict.get(key, default)
Get(dict, key, default) == IF key \in DOMAIN dict THEN dict[key] ELSE default

\* StoreResult with results kept on the shared orchestrator instead of in
\* the call: the assignment shows in every request
StoreResult_Shared(reqs, r, key, value) ==
    [q \in DOMAIN reqs |-> [reqs[q] EXCEPT !.results = (key :> value) @@ @]]

\* results[key] = value in the call of generate_code that serves request r
StoreResult(reqs, r, key, value) ==
    [reqs EXCEPT ![r].results = (key :> value) @@ @]

\* the requests being served: received and not yet answered
InService == {q \in Requests : requests[q].pc \notin {"idle", "responded", "error"}}

\* the handler is called with a body and calls orchestrator.generate_code,
\* which runs up to stage 1
WebReceive(r) ==
    /\ requests[r].pc = "idle"
    /\ \E b \in WebBodies :
          requests' = [requests EXCEPT
              ![r].description = b.description,
              ![r].language = b.language,
              ![r].results = [description |-> b.description, language |-> b.language],
              ![r].overlap = InService,
              ![r].pc = "plan"]
    /\ UNCHANGED <<pc, description, language, calls, oracle_log, plan, design,
                   code_output, test_results, results, returned, saved>>

\* the stage method of the shared agent is called and blocks in chain.invoke
WebInvoke(r) ==
    /\ requests[r].pc \in {"plan", "design", "code", "test"}
    /\ requests' = [requests EXCEPT ![r].pc = @ \o "_wait"]
    /\ UNCHANGED <<pc, description, language, calls, oracle_log, plan, design,
                   code_output, test_results, results, returned, saved>>

\* the stage in whose oracle call request r is blocked
StageOf(r) == SubSeq(requests[r].pc, 1, Len(requests[r].pc) - 5)

\* the output a stage method makes of the oracle's content, for request r
StageOutput(r, stage, content) ==
    CASE stage = "plan" -> PlannerParse(content, requests[r].language)
      [] stage = "design" -> DesignerParse(content, requests[r].language)
      [] stage = "code" -> CodeGeneratorParse(content, requests[r].language)
      [] stage = "test" -> TesterParse(content)

\* request r with the output of a stage assigned to its local
WithLocal(q, stage, out) ==
    CASE stage = "plan" -> [q EXCEPT !.plan = out]
      [] stage = "design" -> [q EXCEPT !.design = out]
      [] stage = "code" -> [q EXCEPT !.code_output = out]
      [] stage = "test" -> [q EXCEPT !.test_results = out]

\* chain.invoke returns, the stage method returns its output and
\* generate_code stores it; after stage 4 generate_code returns results
WebReturn(r) ==
    /\ requests[r].pc \in WaitingPositions
    /\ \E c \in WebReplies(StageOf(r)) :
          LET stage  == StageOf(r)
              out    == StageOutput(r, stage, c)
              q      == [WithLocal(requests[r], stage, out) EXCEPT
                            !.replies = Append(@, c), !.pc = AfterStage(stage)]
              stored == StoreResult([requests EXCEPT ![r] = q], r, ResultKey(stage), out)
          IN  requests' = IF stage = "test"
                          THEN [stored EXCEPT ![r].returned = stored[r].results]
                          ELSE stored
    /\ UNCHANGED <<pc, description, language, calls, oracle_log, plan, design,
                   code_output, test_results, results, returned, saved>>

\* chain.invoke raises: the exception leaves generate_code and the handler
WebOracleFails(r) ==
    /\ requests[r].pc \in WaitingPositions
    /\ requests' = [requests EXCEPT ![r].pc = "error"]
    /\ UNCHANGED <<pc, description, language, calls, oracle_log, plan, design,
                   code_output, test_results, results, returned, saved>>

\* the handler builds its answer from the dict generate_code returned
WebRespond(r) ==
    /\ requests[r].pc = "returned"
    /\ LET result == requests[r].returned
       IN  requests' = [requests EXCEPT
              ![r].response = [planning |-> Get(result, "planner", ""),
                               design   |-> Get(result, "designer", ""),
                               code     |-> Get(result, "code", ""),
                               testing  |-> Get(result, "tester", "")],
              ![r].pc = "responded"]
    /\ UNCHANGED <<pc, description, language, calls, oracle_log, plan, design,
                   code_output, test_results, results, returned, saved>>

NextWeb ==
    \E r \in Requests :
        \/ WebReceive(r)
        \/ WebInvoke(r)
        \/ WebReturn(r)
        \/ WebOracleFails(r)
        \/ WebRespond(r)

SpecWeb == Init /\ [][NextWeb]_vars

-----------------------------------------------------------------------------
(* Properties *)

StageOrder == <<"plan", "design", "code", "test">>

Max(S) == CHOOSE m \in S : \A n \in S : m >= n

\* s without its leading and trailing whitespace, by the positions of its
\* first and last non-whitespace characters
Trimmed(s) ==
    LET solid == {i \in 1..Len(s) : CharAt(s, i) \notin Whitespace}
    IN  IF solid = {} THEN "" ELSE SubSeq(s, Min(solid), Max(solid))

\* the content the oracle returned for a stage
ReplyOf(i) == oracle_log[i].outcome.content

\* C1: in a run the stages are invoked in the order plan, design, code, test,
\* each at most once and with one oracle call each; a stage is invoked only
\* once the previous one has returned, with the previous stages' outputs as
\* its arguments; a run that returns has made exactly the four calls.
C1_StagesInOrder ==
    /\ Len(calls) <= 4
    /\ Len(oracle_log) = Len(calls)
    /\ \A i \in 1..Len(calls) :
          /\ calls[i].stage = StageOrder[i]
          /\ oracle_log[i].stage = StageOrder[i]
    /\ Len(calls) >= 1 => calls[1].args = <<description, language>>
    /\ Len(calls) >= 2 =>
          /\ oracle_log[1].outcome.ok
          /\ plan = PlannerParse(ReplyOf(1), language)
          /\ calls[2].args = <<plan, language>>
    /\ Len(calls) >= 3 =>
          /\ oracle_log[2].outcome.ok
          /\ design = DesignerParse(ReplyOf(2), language)
          /\ calls[3].args = <<description, plan, design, language>>
    /\ Len(calls) >= 4 =>
          /\ oracle_log[3].outcome.ok
          /\ code_output = CodeGeneratorParse(ReplyOf(3), language)
          /\ calls[4].args = <<description, code_output, language>>
    /\ returned # None =>
          /\ Len(calls) = 4
          /\ \A i \in 1..4 : oracle_log[i].outcome.ok
          /\ returned = [description |-> description, language |-> language,
                         plan |-> plan, design |-> design, code |-> code_output,
                         test_results |-> test_results]

C1_Witness ==
    /\ pc = "done"
    /\ returned # None
    /\ Len(calls) = 4
    /\ test_results = TesterParse(ReplyOf(4))

\* C2: once an oracle call has failed it is the last stage invocation and the
\* last oracle call of the run (no retry, no later stage), generate_code
\* returns nothing and nothing is saved.
C2_FailureAborts ==
    \A i \in 1..Len(oracle_log) :
        ~oracle_log[i].outcome.ok =>
            /\ i = Len(oracle_log)
            /\ i = Len(calls)
            /\ pc \in WaitingPositions \cup {"fatal"}
            /\ returned = None
            /\ saved = None

C2_Witness ==
    /\ pc = "fatal"
    /\ Len(calls) = 3
    /\ ~oracle_log[3].outcome.ok
    /\ returned = None

\* C3: a completed run yields four records whose text fields are all
\* non-empty strings and whose list fields all have at least one entry.
C3_AllFieldsNonEmpty ==
    returned # None =>
        /\ plan.project_overview # "" /\ plan.approach # ""
        /\ plan.considerations # "" /\ plan.key_features # << >>
        /\ design.architecture # "" /\ design.data_structures # ""
        /\ design.function_signatures # "" /\ design.components # << >>
        /\ code_output.code # "" /\ code_output.filename # ""
        /\ code_output.explanation # ""
        /\ test_results.overall_quality # "" /\ test_results.test_results # << >>
        /\ test_results.issues_found # << >> /\ test_results.suggestions # << >>

\* C4: the plan never has more than 8 features.
C4_FeatureCap == plan # None => Len(plan.key_features) <= 8

\* C5: the design never has more than 10 components, and of n component
\* bullets c1, c2, ... the first 10 are kept in response order.
C5_ComponentCap ==
    design # None =>
        /\ Len(design.components) <= 10
        /\ \A n \in 1..MaxBullets :
              Contains(ReplyOf(2), ManyComponents(n))
              /\ ~Contains(ReplyOf(2), ManyComponents(n + 1)) =>
                  design.components =
                      [i \in 1..(IF n < 10 THEN n ELSE 10) |-> "c" \o ToString(i)]

C5_Witness ==
    /\ design # None
    /\ Contains(ReplyOf(2), ManyComponents(11))
    /\ Len(design.components) = 10
    /\ design.components[10] = "c10"

\* the response of the code stage holds exactly one fenced block
OneFencedBlock == Len(Split(ReplyOf(3), Fence)) = 3

\* the content of that block
Block == Split(ReplyOf(3), Fence)[2]

\* the first line of a text and what follows it
FirstLine(s) == IF Contains(s, "\n") THEN SubSeq(s, 1, Find(s, "\n") - 1) ELSE s
AfterFirstLine(s) == IF Contains(s, "\n") THEN From(s, Find(s, "\n") + 1) ELSE ""

KnownTags == {"python", "javascript", "java", "cpp", "c++", "c", "go", "rust"}

IsTagLine(line) == Lower(Trimmed(line)) \in KnownTags \cup {Lower(language)}

\* C6 as stated: with exactly one fenced block the code is the block's
\* content, less its first line iff that line is a language tag.
C6_FencedVerbatim ==
    code_output # None /\ OneFencedBlock =>
        code_output.code =
            IF IsTagLine(FirstLine(Block)) THEN AfterFirstLine(Block) ELSE Block

\* C6 as amended: with exactly one fenced block the code is the block's
\* content without its surrounding whitespace, less its first line iff that
\* line is a language tag or the requested language (in any case, blanks
\* around it ignored), and again without surrounding whitespace.
C6_FencedTrimmed ==
    code_output # None /\ OneFencedBlock =>
        code_output.code =
            IF IsTagLine(FirstLine(Trimmed(Block)))
            THEN Trimmed(AfterFirstLine(Trimmed(Block)))
            ELSE Trimmed(Block)

C6_Witness ==
    /\ code_output # None
    /\ OneFencedBlock
    /\ Block = "Python\nx=1"
    /\ code_output.code = "x=1"

\* C7 as stated: without a fence the code is the response, character for
\* character.
C7_UnfencedVerbatim ==
    code_output # None /\ ~Contains(ReplyOf(3), Fence) =>
        code_output.code = ReplyOf(3)

\* C7 as amended: without a fence the code is the response without its
\* leading and trailing whitespace.
C7_UnfencedTrimmed ==
    code_output # None /\ ~Contains(ReplyOf(3), Fence) =>
        code_output.code = Trimmed(ReplyOf(3))

C7_Witness ==
    /\ code_output # None
    /\ ReplyOf(3) = " x=1\n"
    /\ code_output.code = "x=1"

\* C8: the filename depends on the language alone, case-insensitively:
\* generated_code.py for Python and python, generated_code.js for
\* javascript, generated_code.cpp for C++, generated_code.txt for a language
\* the table does not hold; save_code writes to that name.
C8_FilenameByLanguage ==
    code_output # None =>
        /\ language \in {"Python", "python"} => code_output.filename = "generated_code.py"
        /\ language = "javascript" => code_output.filename = "generated_code.js"
        /\ language = "C++" => code_output.filename = "generated_code.cpp"
        /\ language = "COBOL" => code_output.filename = "generated_code.txt"
        /\ language \in {"Python", "python", "javascript", "C++", "COBOL"}
        /\ saved # None => saved.path = code_output.filename

C8_Witness ==
    /\ pc = "done"
    /\ language = "Python"
    /\ code_output.filename = "generated_code.py"
    /\ saved # None

\* the findings of the static checks on the code: empty code, and
\* `while (true)' with no `break' anywhere
StaticFindings(code) ==
    (IF code = "" THEN {"Generated code is empty"} ELSE {})
    \cup (IF Contains(code, "while (true)") /\ ~Contains(code, "break")
          THEN {"Potential infinite loop"} ELSE {})

\* the issues the report lists, its placeholder entry aside
ReportedIssues ==
    {test_results.issues_found[i] : i \in 1..Len(test_results.issues_found)}
    \ {"No critical issues found"}

\* C9: the report is production-ready iff the static findings together
\* with the issues the oracle reported are empty.
C9_ReadyIffNoIssues ==
    returned # None =>
        (test_results.is_production_ready
            <=> StaticFindings(code_output.code) \cup ReportedIssues = {})

\* C10: code containing `while (true)' and no `break' is reported as a
\* potential infinite loop and not production-ready, whatever the review says.
C10_InfiniteLoopFlagged ==
    returned # None /\ Contains(code_output.code, "while (true)")
                    /\ ~Contains(code_output.code, "break") =>
        /\ ~test_results.is_production_ready
        /\ \E i \in 1..Len(test_results.issues_found) :
              Contains(Lower(test_results.issues_found[i]), "loop")

\* C11: the answer of the /generate handler has exactly the keys planning,
\* design, code and testing; planning, design and testing carry the run's
\* plan, design and review, none of them the empty default, and code carries
\* the generated code.
C11_HandlerCarriesOutputs ==
    \A r \in Requests :
        requests[r].response # None =>
            /\ DOMAIN requests[r].response = {"planning", "design", "code", "testing"}
            /\ requests[r].response.code = requests[r].code_output
            /\ requests[r].response.planning # ""
            /\ requests[r].response.design # ""
            /\ requests[r].response.testing # ""

\* what generate_code makes of a description, a language and the four
\* contents the oracle returned to its four calls
BundleOf(d, l, replies) ==
    [description  |-> d,
     language     |-> l,
     plan         |-> PlannerParse(replies[1], l),
     design       |-> DesignerParse(replies[2], l),
     code         |-> CodeGeneratorParse(replies[3], l),
     test_results |-> TesterParse(replies[4])]

\* C12: whatever the interleaving of the two requests, the bundle
\* generate_code returns to one of them is the bundle of that request's own
\* description, language and four oracle responses.
C12_RunsIndependent ==
    \A r \in Requests :
        requests[r].returned # None =>
            requests[r].returned =
                BundleOf(requests[r].description, requests[r].language, requests[r].replies)

C12_Witness ==
    /\ requests["r1"].returned # None
    /\ requests["r2"].returned # None
    /\ "r1" \in requests["r2"].overlap
    /\ requests["r1"].language # requests["r2"].language
    /\ requests["r1"].returned.plan # requests["r2"].returned.plan
    /\ requests["r1"].returned.code # requests["r2"].returned.code

\* the segments at the odd positions of the split of the code stage's
\* response on the fence, in response order
FencedBlocks ==
    LET parts == Split(ReplyOf(3), Fence)
    IN  [k \in 1..(Len(parts) \div 2) |-> parts[2 * k]]

\* a block without its surrounding whitespace, less its first line when that
\* line is a language tag
BlockCode(part) ==
    IF IsTagLine(FirstLine(Trimmed(part)))
    THEN Trimmed(AfterFirstLine(Trimmed(part)))
    ELSE Trimmed(part)

RECURSIVE Concatenation(_)
Concatenation(blocks) ==
    IF blocks = << >> THEN ""
    ELSE BlockCode(Head(blocks)) \o Concatenation(Tail(blocks))

\* C13: when the response of the code stage holds more than one fenced
\* block, the extracted code is the concatenation, in response order, of
\* every segment at an odd position of the split on the fence, each less its
\* first line when that line is a language tag (surrounding whitespace
\* ignored).
C13_AllBlocksConcatenated ==
    code_output # None /\ Len(Split(ReplyOf(3), Fence)) >= 5 =>
        code_output.code = Trimmed(Concatenation(FencedBlocks))

\* a line that moves the plan stage's section cursor
IsPlanHeader(line) ==
    \E word \in {"overview", "summary", "feature", "requirement", "approach",
                  "strategy", "consideration", "note"} : Contains(Lower(line), word)

\* the section of a header line
PlanSectionOf(line) ==
    LET low == Lower(line)
    IN  IF Contains(low, "overview") \/ Contains(low, "summary") THEN "overview"
        ELSE IF Contains(low, "feature") \/ Contains(low, "requirement") THEN "features"
        ELSE IF Contains(low, "approach") \/ Contains(low, "strategy") THEN "approach"
        ELSE "considerations"

\* the scan as C14 describes it: a bullet line under features joins the
\* feature list, every other content line joins the text of its section
StatedPlanLine(st, raw) ==
    LET line == Trimmed(raw)
    IN  IF line = "" THEN st
        ELSE IF IsPlanHeader(line) THEN [st EXCEPT !.section = PlanSectionOf(line)]
        ELSE IF IsBullet(line) /\ st.section = "features"
             THEN [st EXCEPT !.features = Append(@, LStripChars(line, BulletStrip))]
        ELSE IF st.section = "overview"
             THEN [st EXCEPT !.overview = @ \o line \o " "]
        ELSE IF st.section = "approach"
             THEN [st EXCEPT !.approach = @ \o line \o " "]
        ELSE IF st.section = "considerations"
             THEN [st EXCEPT !.considerations = @ \o line \o " "]
        ELSE st

RECURSIVE StatedPlanScan(_, _)
StatedPlanScan(st, lines) ==
    IF lines = << >> THEN st
    ELSE StatedPlanScan(StatedPlanLine(st, Head(lines)), Tail(lines))

\* the sections a scan found, before the fallbacks for empty ones
Found(st) == [overview |-> Trimmed(st.overview), features |-> st.features,
              approach |-> Trimmed(st.approach),
              considerations |-> Trimmed(st.considerations)]

\* C14: of the non-blank lines that are not section headers, a bullet line
\* met while the cursor is on features is appended to the feature list and
\* every other line is appended to the text of the section the cursor is on,
\* so that every section the scan fills appears in the plan as filled: no
\* content line under overview, approach or considerations is dropped.
C14_NoContentLineDropped ==
    plan # None =>
        LET st == Found(StatedPlanScan(PlanStart, Split(ReplyOf(1), "\n")))
        IN  /\ st.overview # "" => plan.project_overview = st.overview
            /\ st.features # << >> => plan.key_features = st.features
            /\ st.approach # "" => plan.approach = st.approach
            /\ st.considerations # "" => plan.considerations = st.considerations

\* C15: every report holds exactly two checks, "Syntax & Structure" and
\* "Runtime Safety", and each check passes iff the report is production-ready.
C15_TwoChecksMirrorVerdict ==
    test_results # None =>
        /\ Len(test_results.test_results) = 2
        /\ test_results.test_results[1].test_name = "Syntax & Structure"
        /\ test_results.test_results[2].test_name = "Runtime Safety"
        /\ \A k \in 1..Len(test_results.test_results) :
              test_results.test_results[k].passed = test_results.is_production_ready

\* the lines of the test stage's response, without surrounding whitespace
ReviewLines ==
    LET raw == Split(ReplyOf(4), "\n") IN [i \in 1..Len(raw) |-> Trimmed(raw[i])]

\* the section a line names, "none" when it names none
SectionNamed(line) ==
    LET low == Lower(line)
    IN  IF Contains(low, "quality") \/ Contains(low, "assessment") THEN "quality"
        ELSE IF Contains(low, "test") /\ Contains(low, "result") THEN "tests"
        ELSE IF Contains(low, "issue") \/ Contains(low, "problem")
                \/ Contains(low, "concern") THEN "issues"
        ELSE IF Contains(low, "suggest") \/ Contains(low, "recommend")
                \/ Contains(low, "improve") THEN "suggestions"
        ELSE "none"

\* the section cursor in force at line i of the lines: the section named by
\* the last line up to and including i that names one
CursorAt(lines, i) ==
    LET naming == {j \in 1..i : lines[j] # "" /\ SectionNamed(lines[j]) # "none"}
    IN  IF naming = {} THEN "none" ELSE SectionNamed(lines[Max(naming)])

\* the positions of the bullet lines met while the cursor is on issues
IssueBulletPositions(lines) ==
    {i \in 1..Len(lines) : IsBullet(lines[i]) /\ CursorAt(lines, i) = "issues"}

\* the issue bullets of the response, markers removed, in response order
CollectedIssues ==
    LET lines == ReviewLines
        at == IssueBulletPositions(lines)
        nth(k) == CHOOSE i \in at : Cardinality({j \in at : j < i}) = k - 1
    IN  [k \in 1..Cardinality(at) |-> Trimmed(LStripChars(lines[nth(k)], BulletStrip))]

\* C16: the verdict of the test stage is decided by the collected issue
\* bullets alone: with none collected the report is production-ready and
\* lists the single fallback entry, whatever the response declares; with at
\* least one it is not production-ready and lists exactly the collected
\* bullets in response order.
C16_VerdictByIssueBullets ==
    test_results # None =>
        LET collected == CollectedIssues
        IN  IF collected = << >>
            THEN /\ test_results.is_production_ready
                 /\ test_results.issues_found = <<"No critical issues found">>
            ELSE /\ ~test_results.is_production_ready
                 /\ test_results.issues_found = collected

C16_Witness ==
    /\ test_results # None
    /\ \E i \in 1..Len(ReviewLines) : ReviewLines[i] = "Not production ready"
    /\ CollectedIssues = << >>
    /\ test_results.is_production_ready
    /\ test_results.issues_found = <<"No critical issues found">>

====
